---------------------------- MODULE Spec2Model ----------------------------
(***************************************************************************)
(* Model of the Bhashini demonstration client:                             *)
(*   bhashini_api.py    module initialisation, payload builders, parsers   *)
(*   app.py             the five task branches of the Streamlit script     *)
(*   utils.py           microphone recording and audio playback            *)
(*   language_utils.py  fetch_available_translation_pairs (lru_cache)      *)
(*                                                                         *)
(* Python values are modelled as strings: None is the string None, a       *)
(* missing dictionary key is Absent, an exception is its class name or,    *)
(* for a bare Exception, its message.                                      *)
(***************************************************************************)
EXTENDS Naturals, Sequences, FiniteSets, TLC

VARIABLES
    env,            \* the four settings read by os.getenv
    loadState,      \* "unloaded" | "ready" | the exception that ended the import
    HEADERS,        \* bhashini_api.HEADERS
    SCRIPT_MAP,     \* bhashini_api.SCRIPT_MAP (the defaultdict's stored entries)
    startupFetch,   \* what the startup request of fetch_supported_languages met
    startupMap,     \* SCRIPT_MAP as it stood when module initialisation ended
    loadRequests,   \* HTTP requests issued by module initialisation
    pc,             \* position of the Streamlit script in the current action
    cur,            \* the chosen task and the widgets' values
    audio,          \* what recognize_speech_and_encode returned
    resp,           \* outcome of the pipeline HTTP request of this action
    sent,           \* payloads posted to the pipeline endpoint in this action
    log,            \* steps of this action, in order
    msgs,           \* messages displayed to the user in this action
    printed,        \* lines printed to the console in this action
    failed,         \* steps of this action that failed
    api,            \* what the API function of this action returned or raised
    pairsCache,     \* lru_cache of fetch_available_translation_pairs
    pairsCalls,     \* calls of fetch_available_translation_pairs
    pairsRequests,  \* HTTP requests issued by fetch_available_translation_pairs
    pairsFirst,     \* result of its first call
    pairsLast,      \* result of its latest call
    pairsFirstOutcome, \* what the first call's request met
    pipeIn,         \* arguments and HTTP outcome of one pipeline call
    pipeOut         \* what bhashini_asr_nmt_tts_pipeline did with them

loadVars  == <<env, loadState, HEADERS, SCRIPT_MAP, startupFetch, startupMap, loadRequests>>
appVars   == <<pc, cur, audio, resp, sent, log, msgs, printed, failed, api>>
pairsVars == <<pairsCache, pairsCalls, pairsRequests, pairsFirst, pairsLast, pairsFirstOutcome>>
pipeVars  == <<pipeIn, pipeOut>>
vars      == <<loadVars, appVars, pairsVars, pipeVars>>

----------------------------------------------------------------------------
\* Bounds of the model.

\* languages entries in the answer to the startup request
MaxFetched == 2
\* entries of 'pipelineResponse' in an answer of the pipeline endpoint
MaxTasks == 3
\* entries of 'pipelineResponse' in the answer to the translation-pairs request
MaxItems == 3
\* calls of fetch_available_translation_pairs in one process
MaxPairCalls == 3

----------------------------------------------------------------------------
\* Python values.

None   == "None"
Absent == "<absent>"
NoExc  == "<no exception>"
NotSet == "-"

\* Python truth of a string-or-None value (bool(x)).
Truthy(v) == v /= None /\ v /= Absent /\ v /= ""

\* dict.get(key): None when the key is absent.
DictGet(v) == IF v = Absent THEN None ELSE v

Langs   == {"en", "hi"}
Scripts == {"Deva", "Beng"}

\* The sequences over S of length n at most.
SeqsUpTo(S, n) == UNION {[1..k -> S] : k \in 0..n}

Range(s) == {s[i] : i \in 1..Len(s)}


----------------------------------------------------------------------------
\* bhashini_api.py: module initialisation (lines 14-62).

Settings == {"ULCA_USER_ID", "ULCA_API_KEY", "BHASHINI_AUTH_TOKEN", "BHASHINI_PIPELINE_URL"}

\* os.getenv gives None for an unset variable, "" for an empty one.
SettingValues == {None, "", "v"}

\* A test of the settings that takes an empty one for present.
AllSettingsNotNone(e) == \A k \in Settings : e[k] /= None
\* all([ULCA_USER_ID, ULCA_API_KEY, BHASHINI_AUTH_TOKEN, BHASHINI_PIPELINE_URL])
AllSettings(e) == \A k \in Settings : Truthy(e[k])

NoHeaders == [ContentType |-> Absent, Accept |-> Absent, user_id |-> Absent,
              api_key |-> Absent, Authorization |-> Absent]

BuildHeaders(e) == [ContentType |-> "application/json", Accept |-> "*/*",
                    user_id |-> e["ULCA_USER_ID"], api_key |-> e["ULCA_API_KEY"],
                    Authorization |-> e["BHASHINI_AUTH_TOKEN"]]

\* defaultdict(lambda: 'Latn')
DefaultFactory == "Latn"
EmptyMap == [l \in {} |-> DefaultFactory]

\* One element of a pipeline's 'languages' list, as the startup request returns it.
FetchEntries == [sourceLanguage : {Absent, "", "hi"}, sourceScriptCode : {Absent} \cup Scripts]

FetchOutcomes == {[kind |-> k, entries |-> <<>>] : k \in {"RequestException", "AttributeError"}}
                 \cup {[kind |-> "ok", entries |-> es] : es \in SeqsUpTo(FetchEntries, MaxFetched)}

\* The loop of fetch_supported_languages over the languages entries, in order.
RECURSIVE LanguageMap(_)
LanguageMap(entries) ==
    IF entries = <<>> THEN EmptyMap
    ELSE LET n         == Len(entries)
             before    == LanguageMap(SubSeq(entries, 1, n - 1))
             lang_code == DictGet(entries[n].sourceLanguage)
             script_code == DictGet(entries[n].sourceScriptCode)
         IN  IF Truthy(lang_code) /\ Truthy(script_code)
             THEN (lang_code :> script_code) @@ before
             ELSE before

\* fetch_supported_languages(): one request. A RequestException is caught and
\* gives {}; any other exception (an answer that is no JSON object) is not caught.
fetch_supported_languages(outcome) ==
    IF outcome.kind = "RequestException"
    THEN [requests |-> 1, raised |-> FALSE, map |-> EmptyMap]
    ELSE IF outcome.kind = "AttributeError"
    THEN [requests |-> 1, raised |-> TRUE, map |-> EmptyMap]
    ELSE [requests |-> 1, raised |-> FALSE, map |-> LanguageMap(outcome.entries)]

NoFetch == [kind |-> "none", map |-> EmptyMap]

----------------------------------------------------------------------------
\* bhashini_api.py: get_script_code and the pipeline request (lines 64-74).

\* A lookup that returns the factory's value for a missing key and stores another.
DefaultDictGetStoresDeva(map, key) ==
    IF key \in DOMAIN map THEN [map |-> map, value |-> map[key]]
    ELSE [map |-> (key :> "Deva") @@ map, value |-> DefaultFactory]
\* SCRIPT_MAP[language_code] on a defaultdict: a missing key is given the
\* factory's value, which is stored and returned.
DefaultDictGet(map, key) ==
    IF key \in DOMAIN map THEN [map |-> map, value |-> map[key]]
    ELSE [map |-> (key :> DefaultFactory) @@ map, value |-> DefaultFactory]

\* A lookup with the default of language_utils.get_script_code ("Deva"), the
\* function imported at line 10 and shadowed at line 64.
get_script_code_DefaultDeva(map, language_code) ==
    [map |-> map, value |-> IF language_code \in DOMAIN map THEN map[language_code] ELSE "Deva"]
\* get_script_code(language_code), lines 64-65
get_script_code(map, language_code) == DefaultDictGet(map, language_code)

\* The answers of the pipeline endpoint. A task's 'output' is missing, or a list
\* that is empty or holds one dictionary; Absent says that the dictionary lacks
\* the key the task's stage is read by (source, target, audioContent).
TaskTypes == <<"asr", "translation", "tts">>
Values    == {Absent, "", "data"}
Outputs   == {[present |-> FALSE, list |-> <<>>], [present |-> TRUE, list |-> <<>>]}
             \cup {[present |-> TRUE, list |-> <<v>>] : v \in Values}
Tasks     == [taskType : Range(TaskTypes), output : Outputs]

StageOf(taskType) == CHOOSE i \in 1..Len(TaskTypes) : TaskTypes[i] = taskType

\* One entry for each stage at most.
DistinctTypes(ts) == \A i, j \in 1..Len(ts) : i /= j => ts[i].taskType /= ts[j].taskType
\* Entries in the order of the stages of the request.
InStageOrder(ts)  == \A i, j \in 1..Len(ts) : i < j => StageOf(ts[i].taskType) < StageOf(ts[j].taskType)

EmptyJson == [shape |-> "empty", pipelineResponse |-> <<>>]
NoKeyJson == [shape |-> "nokey", pipelineResponse |-> <<>>]
PipelineResponses ==
    {EmptyJson, NoKeyJson}
    \cup {[shape |-> "dict", pipelineResponse |-> ts] :
             ts \in {t \in SeqsUpTo(Tasks, MaxTasks) : DistinctTypes(t)}}
OrderedResponses == {r \in PipelineResponses : InStageOrder(r.pipelineResponse)}

HttpOutcomes(responses) ==
    {[kind |-> k, json |-> EmptyJson] : k \in {"ConnectionError", "HTTPError"}}
    \cup {[kind |-> "ok", json |-> r] : r \in responses}
NoOutcome == [kind |-> "none", json |-> EmptyJson]

\* A request that is posted a second time when it failed.
bhashini_pipeline_request_retry(payload, outcome) ==
    [sent |-> IF outcome.kind = "ok" THEN <<payload>> ELSE <<payload, payload>>,
     json |-> outcome.json,
     exc  |-> IF outcome.kind = "ok" THEN NoExc ELSE outcome.kind]
\* bhashini_pipeline_request(payload): one requests.post, raise_for_status, json().
bhashini_pipeline_request(payload, outcome) ==
    [sent |-> <<payload>>,
     json |-> outcome.json,
     exc  |-> IF outcome.kind = "ok" THEN NoExc ELSE outcome.kind]

\* response.get('pipelineResponse', [])
GetPipelineResponse(json) == IF json.shape = "dict" THEN json.pipelineResponse ELSE <<>>

\* Index of the first task of the given type, 0 when there is none.
FirstOfType(ts, taskType) ==
    IF \E i \in 1..Len(ts) : ts[i].taskType = taskType
    THEN CHOOSE i \in 1..Len(ts) : ts[i].taskType = taskType
                                   /\ \A j \in 1..(i - 1) : ts[j].taskType /= taskType
    ELSE 0

\* task['output'][0][key]
Subscript(output) ==
    IF ~output.present THEN [value |-> None, exc |-> "KeyError"]
    ELSE IF output.list = <<>> THEN [value |-> None, exc |-> "IndexError"]
    ELSE IF output.list[1] = Absent THEN [value |-> None, exc |-> "KeyError"]
    ELSE [value |-> output.list[1], exc |-> NoExc]

\* task['output'][0].get(key)
SubscriptGet(output) ==
    IF ~output.present THEN [value |-> None, exc |-> "KeyError"]
    ELSE IF output.list = <<>> THEN [value |-> None, exc |-> "IndexError"]
    ELSE [value |-> DictGet(output.list[1]), exc |-> NoExc]

\* The steps an API function went through: payload built, requests posted, answer parsed.
Events(built, posted, parsed) ==
    (IF built THEN <<"build">> ELSE <<>>)
    \o [i \in 1..Len(posted) |-> "http"]
    \o (IF parsed THEN <<"parse">> ELSE <<>>)

Config(taskType, serviceId, src, srcScript, tgt, tgtScript, gender, audioFormat) ==
    [sourceLanguage |-> src, sourceScriptCode |-> srcScript,
     taskType |-> taskType, serviceId |-> serviceId,
     gender |-> gender, audioFormat |-> audioFormat,
     targetLanguage |-> tgt, targetScriptCode |-> tgtScript]

Payload(tasks, inputKind, data) ==
    [pipelineTasks |-> tasks, inputData |-> [kind |-> inputKind, content |-> data]]

\* The shared tail of bhashini_asr, bhashini_nmt and bhashini_asr_nmt: the first
\* task of the type is subscripted, and none of the type raises Exception(message).
ReturnFirst(map, payload, outcome, taskType, message) ==
    LET r  == bhashini_pipeline_request(payload, outcome)
        ts == GetPipelineResponse(r.json)
        i  == FirstOfType(ts, taskType)
        v  == IF i = 0 THEN [value |-> None, exc |-> message] ELSE Subscript(ts[i].output)
    IN  IF r.exc /= NoExc
        THEN [sent |-> r.sent, map |-> map,
              value |-> None, exc |-> r.exc, events |-> Events(TRUE, r.sent, FALSE)]
        ELSE [sent |-> r.sent, map |-> map,
              value |-> v.value, exc |-> v.exc, events |-> Events(TRUE, r.sent, TRUE)]

\* bhashini_asr(audio_base64_string, source_language), lines 76-97
bhashini_asr(map, audio_base64_string, source_language, outcome) ==
    ReturnFirst(map,
        Payload(<<Config("asr", "ai4bharat/conformer-hi-gpu--t4", source_language, NotSet,
                         NotSet, NotSet, NotSet, "flac")>>, "audio", audio_base64_string),
        outcome, "asr", "ASR failed.")

\* bhashini_nmt(text, source_lang, target_lang), lines 100-121
bhashini_nmt(map, text, source_lang, target_lang, outcome) ==
    ReturnFirst(map,
        Payload(<<Config("translation", "ai4bharat/indictrans-v2-all-gpu--t4", source_lang, NotSet,
                         target_lang, NotSet, NotSet, NotSet)>>, "input", text),
        outcome, "translation", "Translation failed.")

\* bhashini_tts(text, target_language, gender), lines 124-153, save_to_file=False
bhashini_tts(map, text, target_language, gender, outcome) ==
    LET payload == Payload(<<Config("tts", "ai4bharat/indic-tts-coqui-misc-gpu--t4",
                                    target_language, NotSet, NotSet, NotSet, gender, NotSet)>>,
                           "text", text)
        r  == bhashini_pipeline_request(payload, outcome)
        ts == GetPipelineResponse(r.json)
        i  == FirstOfType(ts, "tts")
        v  == IF i = 0 THEN [value |-> None, exc |-> "TTS failed."] ELSE SubscriptGet(ts[i].output)
    IN  IF r.exc /= NoExc
        THEN [sent |-> r.sent, map |-> map,
              value |-> None, exc |-> r.exc, events |-> Events(TRUE, r.sent, FALSE)]
        ELSE [sent |-> r.sent, map |-> map,
              value |-> v.value, exc |-> v.exc, events |-> Events(TRUE, r.sent, TRUE)]

\* The ASR and translation configurations of the two composite payloads; the
\* three get_script_code calls are made in the order of the dictionary literal.
AsrNmtConfigs(map, src, tgt) ==
    LET g1 == get_script_code(map, src)
        g2 == get_script_code(g1.map, src)
        g3 == get_script_code(g2.map, tgt)
    IN  [map |-> g3.map,
         tasks |-> <<Config("asr", "ai4bharat/conformer-hi-gpu--t4", src, g1.value,
                            NotSet, NotSet, NotSet, "wav"),
                     Config("translation", "ai4bharat/indictrans-v2-all-gpu--t4", src, g2.value,
                            tgt, g3.value, NotSet, NotSet)>>]

\* bhashini_asr_nmt(audio_base64_string, source_language_asr, target_language_nmt), lines 155-194
bhashini_asr_nmt(map, audio_base64_string, source_language_asr, target_language_nmt, outcome) ==
    LET c == AsrNmtConfigs(map, source_language_asr, target_language_nmt)
    IN  ReturnFirst(c.map, Payload(c.tasks, "audio", audio_base64_string),
                    outcome, "translation", "ASR-NMT failed.")

\* The loop of lines 260-272: every task of the stage whose 'output' is a
\* non-empty list assigns output[0].get(key); the last assignment stands.
RECURSIVE Extracted(_, _)
Extracted(ts, taskType) ==
    IF ts = <<>> THEN None
    ELSE LET n      == Len(ts)
             before == Extracted(SubSeq(ts, 1, n - 1), taskType)
             output == ts[n].output
         IN  IF ts[n].taskType = taskType /\ output.present /\ output.list /= <<>>
             THEN DictGet(output.list[1])
             ELSE before

\* if not response or 'pipelineResponse' not in response (line 252)
InvalidResponse(json) == json.shape /= "dict"

\* The three checks with the translation tested before the transcription.
StageChecksSwapped(asr_text, translated_text, output_audio_base64) ==
    IF ~Truthy(translated_text) THEN "Translation failed: No target text returned."
    ELSE IF ~Truthy(asr_text) THEN "ASR failed: No transcription returned."
    ELSE IF ~Truthy(output_audio_base64) THEN "TTS failed: No audio content returned."
    ELSE NoExc
\* The three checks of lines 277-282, in their order.
StageChecks(asr_text, translated_text, output_audio_base64) ==
    IF ~Truthy(asr_text) THEN "ASR failed: No transcription returned."
    ELSE IF ~Truthy(translated_text) THEN "Translation failed: No target text returned."
    ELSE IF ~Truthy(output_audio_base64) THEN "TTS failed: No audio content returned."
    ELSE NoExc

\* bhashini_asr_nmt_tts_pipeline(audio_base64_string, source_language_asr,
\* target_language_nmt_tts), lines 196-284
bhashini_asr_nmt_tts_pipeline(map, audio_base64_string, source_language_asr, target_language_nmt_tts, outcome) ==
    LET c  == AsrNmtConfigs(map, source_language_asr, target_language_nmt_tts)
        g4 == get_script_code(c.map, target_language_nmt_tts)
        payload == Payload(Append(c.tasks,
                               Config("tts", "ai4bharat/indic-tts-coqui-misc-gpu--t4",
                                      target_language_nmt_tts, g4.value, NotSet, NotSet,
                                      "female", NotSet)),
                           "audio", audio_base64_string)
        r  == bhashini_pipeline_request(payload, outcome)
        ts == r.json.pipelineResponse
        asr_text            == Extracted(ts, "asr")
        translated_text     == Extracted(ts, "translation")
        output_audio_base64 == Extracted(ts, "tts")
        check == StageChecks(asr_text, translated_text, output_audio_base64)
    IN  IF source_language_asr = target_language_nmt_tts
        THEN [sent |-> <<>>, map |-> map, value |-> None, exc |-> "ValueError", events |-> <<>>]
        ELSE IF r.exc /= NoExc
        THEN [sent |-> r.sent, map |-> g4.map,
              value |-> None, exc |-> r.exc, events |-> Events(TRUE, r.sent, FALSE)]
        ELSE IF InvalidResponse(r.json)
        THEN [sent |-> r.sent, map |-> g4.map,
              value |-> None, exc |-> "Invalid response from Bhashini pipeline.", events |-> Events(TRUE, r.sent, TRUE)]
        ELSE [sent |-> r.sent, map |-> g4.map, value |-> IF check = NoExc THEN output_audio_base64 ELSE None,
              exc |-> check, events |-> Events(TRUE, r.sent, TRUE)]

----------------------------------------------------------------------------
\* utils.py

\* What the microphone can do during recognize_speech_and_encode.
RecordOutcomes == {"speech", "WaitTimeoutError", "listen_error", "microphone_error"}

\* base64 of the recorded WAV data
RecordedAudio == "UklGRg=="

\* recognize_speech_and_encode(language, duration), lines 41-62. Opening the
\* microphone and adjust_for_ambient_noise stand outside the try block.
recognize_speech_and_encode(outcome) ==
    CASE outcome = "speech" ->
           [printed |-> <<"Speak now">>, value |-> RecordedAudio, exc |-> NoExc]
      [] outcome = "WaitTimeoutError" ->
           [printed |-> <<"Speak now", "No speech detected.">>, value |-> None, exc |-> NoExc]
      [] outcome = "listen_error" ->
           [printed |-> <<"Speak now", "Error capturing speech">>, value |-> None, exc |-> NoExc]
      [] OTHER ->
           [printed |-> <<>>, value |-> None, exc |-> "OSError"]

\* What decoding and the audio device can do during play_audio_from_base64.
PlayOutcomes == {"played", "error"}

\* play_audio_from_base64(audio_base64_content), lines 9-38: every exception of
\* decoding, reading and playing is caught and printed.
play_audio_from_base64(audio_base64_content, outcome) ==
    IF ~Truthy(audio_base64_content)
    THEN [printed |-> <<"No audio content to play.">>, exc |-> NoExc, played |-> FALSE, error |-> FALSE]
    ELSE IF outcome = "played"
    THEN [printed |-> <<>>, exc |-> NoExc, played |-> TRUE, error |-> FALSE]
    ELSE [printed |-> <<"Error playing audio from base64">>, exc |-> NoExc, played |-> FALSE,
          error |-> TRUE]

----------------------------------------------------------------------------
\* app.py: the Streamlit script. A button press runs the branch of the chosen
\* task from top to bottom; pc tells how far the run has come.

TextToSpeech              == "Text to Speech"
SpeechToText              == "Speech to Text"
TextToTextTranslation     == "Text to Text Translation"
SpeechToTextTranslation   == "Speech to Text Translation"
SpeechToSpeechTranslation == "Speech to Speech Translation"

TextTasks   == {TextToSpeech, TextToTextTranslation}
SpeechTasks == {SpeechToText, SpeechToTextTranslation, SpeechToSpeechTranslation}

Texts   == {"", "hello"}
Genders == {"male", "female"}

Widgets(task, text, lang, src, tgt, gender) ==
    [src |-> src, tgt |-> tgt, gender |-> gender, text |-> text, task |-> task, lang |-> lang]
NoWidgets == Widgets("none", NotSet, NotSet, NotSet, NotSet, NotSet)

Msg(kind, text, arg) == [kind |-> kind, text |-> text, arg |-> arg]
NoApi == [value |-> None, exc |-> NoExc, called |-> FALSE, name |-> "none"]

\* A text test that lets every text pass.
HasTextAlways(text) == TRUE
\* if text: / if src_text: (lines 28, 67)
HasText(text) == Truthy(text)

\* A recording test that lets every result pass.
AudioCapturedAlways(audio_base64) == TRUE
\* if audio_base64: (lines 51, 86, 110)
AudioCaptured(audio_base64) == Truthy(audio_base64)

Idle == loadState = "ready" /\ pc \in {"idle", "done"}

\* The start of a script run: nothing of the previous run is on the page.
Begin(widgets) ==
    /\ cur' = widgets
    /\ audio' = None
    /\ resp' = NoOutcome
    /\ sent' = <<>>
    /\ log' = <<>>
    /\ printed' = <<>>
    /\ failed' = {}
    /\ api' = NoApi

\* Lines 27-28, 39-40 and 66-67, 73-74: the button of a text task.
PressTextButton(widgets, warning) ==
    /\ Idle
    /\ Begin(widgets)
    /\ IF HasText(widgets.text)
       THEN msgs' = <<>> /\ pc' = "calling"
       ELSE msgs' = <<Msg("warning", warning, NotSet)>> /\ pc' = "done"
    /\ UNCHANGED <<loadVars, pairsVars, pipeVars>>

PressConvertAndPlay ==
    \E text \in Texts, lang \in Langs, gender \in Genders :
        PressTextButton(Widgets(TextToSpeech, text, lang, NotSet, NotSet, gender),
                        "Please enter some text to convert.")

PressTranslate ==
    \E src_text \in Texts, src_lang \in Langs, tgt_lang \in Langs :
        PressTextButton(Widgets(TextToTextTranslation, src_text, NotSet, src_lang, tgt_lang, NotSet),
                        "Please enter some text to translate.")

\* Lines 47-48, 82-83, 106-107: the button of a speech task.
PressSpeechButton(widgets) ==
    /\ Idle
    /\ Begin(widgets)
    /\ msgs' = <<Msg("info", "Listening...", NotSet)>>
    /\ pc' = "recording"
    /\ UNCHANGED <<loadVars, pairsVars, pipeVars>>

PressRecordAndTranscribe ==
    \E lang \in Langs :
        PressSpeechButton(Widgets(SpeechToText, NotSet, lang, NotSet, NotSet, NotSet))

PressRecordAndTranslateToText ==
    \E src \in Langs, tgt \in Langs :
        PressSpeechButton(Widgets(SpeechToTextTranslation, NotSet, NotSet, src, tgt, NotSet))

PressTranslateSpeech ==
    \E src \in Langs, tgt \in Langs :
        PressSpeechButton(Widgets(SpeechToSpeechTranslation, NotSet, NotSet, src, tgt, NotSet))

CapturedText(task) ==
    CASE task = SpeechToText -> "Audio captured. Transcribing..."
      [] task = SpeechToTextTranslation -> "Audio captured. Processing pipeline (ASR -> NMT)..."
      [] OTHER -> "Audio captured. Processing pipeline (ASR -> NMT -> TTS)..."

\* Lines 49-52 and 58-59 (84-87, 97-98; 108-111, 125-126): the recording and the
\* test of its result. An exception of recognize_speech_and_encode is caught by
\* nothing in app.py: the script run ends and Streamlit shows the exception.
Record ==
    /\ loadState = "ready" /\ pc = "recording"
    /\ \E outcome \in RecordOutcomes :
         LET r == recognize_speech_and_encode(outcome)
         IN  /\ audio' = r.value
             /\ printed' = printed \o r.printed
             /\ IF r.exc /= NoExc
                THEN /\ msgs' = Append(msgs, Msg("exception", "uncaught", r.exc))
                     /\ failed' = failed \cup {"record"}
                     /\ log' = log
                     /\ pc' = "done"
                ELSE IF AudioCaptured(r.value)
                THEN /\ msgs' = Append(msgs, Msg("success", CapturedText(cur.task), NotSet))
                     /\ failed' = failed
                     /\ log' = Append(log, "record")
                     /\ pc' = "calling"
                ELSE /\ msgs' = Append(msgs, Msg("warning", "No speech detected or error during recording.", NotSet))
                     /\ failed' = failed \cup {"record"}
                     /\ log' = log
                     /\ pc' = "done"
    /\ UNCHANGED <<loadVars, cur, resp, sent, api, pairsVars, pipeVars>>

\* The step that failed when an API function raised: the request or the parsing.
FailedStep(r) == IF "parse" \in Range(r.events) THEN "parse"
                 ELSE IF "http" \in Range(r.events) THEN "http" ELSE "arguments"

\* The call of an API function inside try, and what the branch shows of it:
\* st.error(prefix: e) when it raised, otherwise the branch's own display.
\* A branch that plays audio tests the returned content first (lines 32-36, 118-122).
Call(name, r, outcome, errorPrefix, successText, plays, noAudioText) ==
    /\ SCRIPT_MAP' = r.map
    /\ resp' = IF r.sent = <<>> THEN NoOutcome ELSE outcome
    /\ sent' = r.sent
    /\ api' = [value |-> r.value, exc |-> r.exc, called |-> TRUE, name |-> name]
    /\ IF r.exc /= NoExc
       THEN /\ msgs' = Append(msgs, Msg("error", errorPrefix, r.exc))
            /\ failed' = failed \cup {FailedStep(r)}
            /\ log' = log \o r.events \o <<"display">>
            /\ pc' = "done"
       ELSE IF ~plays
       THEN /\ msgs' = Append(msgs, Msg("success", successText, r.value))
            /\ failed' = failed
            /\ log' = log \o r.events \o <<"display">>
            /\ pc' = "done"
       ELSE IF Truthy(r.value)
       THEN /\ msgs' = Append(msgs, Msg("success", successText, NotSet))
            /\ failed' = failed
            /\ log' = log \o r.events \o <<"display">>
            /\ pc' = "playing"
       ELSE /\ msgs' = Append(msgs, Msg("error", noAudioText, NotSet))
            /\ failed' = failed \cup {"parse"}
            /\ log' = log \o r.events \o <<"display">>
            /\ pc' = "done"
    /\ UNCHANGED <<env, loadState, HEADERS, startupFetch, startupMap, loadRequests,
                   cur, audio, printed, pairsVars, pipeVars>>

Calling(task) == loadState = "ready" /\ pc = "calling" /\ cur.task = task

\* Lines 29-38
CallTts ==
    /\ Calling(TextToSpeech)
    /\ \E outcome \in HttpOutcomes(OrderedResponses) :
         Call("bhashini_tts", bhashini_tts(SCRIPT_MAP, cur.text, cur.lang, cur.gender, outcome),
              outcome, "TTS Error", "Playing audio", TRUE, "Received no audio content from TTS.")

\* Lines 53-57
CallAsr ==
    /\ Calling(SpeechToText)
    /\ \E outcome \in HttpOutcomes(OrderedResponses) :
         Call("bhashini_asr", bhashini_asr(SCRIPT_MAP, audio, cur.lang, outcome),
              outcome, "ASR Error", "Recognized", FALSE, NotSet)

\* Lines 68-72
CallNmt ==
    /\ Calling(TextToTextTranslation)
    /\ \E outcome \in HttpOutcomes(OrderedResponses) :
         Call("bhashini_nmt", bhashini_nmt(SCRIPT_MAP, cur.text, cur.src, cur.tgt, outcome),
              outcome, "Translation Error", "Translated Text", FALSE, NotSet)

\* Lines 88-96
CallAsrNmt ==
    /\ Calling(SpeechToTextTranslation)
    /\ \E outcome \in HttpOutcomes(OrderedResponses) :
         Call("bhashini_asr_nmt", bhashini_asr_nmt(SCRIPT_MAP, audio, cur.src, cur.tgt, outcome),
              outcome, "Speech to Text Translation Error", "Translated Text", FALSE, NotSet)

\* Lines 112-124
CallAsrNmtTts ==
    /\ Calling(SpeechToSpeechTranslation)
    /\ \E outcome \in HttpOutcomes(OrderedResponses) :
         Call("bhashini_asr_nmt_tts_pipeline",
              bhashini_asr_nmt_tts_pipeline(SCRIPT_MAP, audio, cur.src, cur.tgt, outcome),
              outcome, "Speech-to-Speech Translation Error", "Playing translated speech", TRUE,
              "Received no audio content from combined pipeline.")

\* Lines 34 and 120: play_audio_from_base64 displays nothing, whatever happens.
Play ==
    /\ loadState = "ready" /\ pc = "playing"
    /\ \E outcome \in PlayOutcomes :
         LET r == play_audio_from_base64(api.value, outcome)
         IN  /\ printed' = printed \o r.printed
             /\ log' = IF r.played THEN Append(log, "play") ELSE log
             /\ failed' = IF r.error THEN failed \cup {"play"} ELSE failed
             /\ msgs' = IF r.exc /= NoExc THEN Append(msgs, Msg("exception", "uncaught", r.exc)) ELSE msgs
    /\ pc' = "done"
    /\ UNCHANGED <<loadVars, cur, audio, resp, sent, api, pairsVars, pipeVars>>

\* Lines 14-62 of bhashini_api.py, run by the import at line 4 of app.py. An
\* exception of the module body ends the import; the model follows a process
\* from its first import on.
ImportBhashiniApi ==
    /\ loadState = "unloaded"
    /\ IF ~AllSettings(env)
       THEN /\ loadState' = "ValueError"
            /\ UNCHANGED <<HEADERS, SCRIPT_MAP, startupFetch, startupMap, loadRequests>>
       ELSE \E outcome \in FetchOutcomes :
              LET f == fetch_supported_languages(outcome)
              IN  /\ HEADERS' = BuildHeaders(env)
                  /\ loadRequests' = loadRequests + f.requests
                  /\ startupFetch' = [kind |-> outcome.kind, map |-> f.map]
                  /\ IF f.raised
                     THEN /\ loadState' = outcome.kind
                          /\ UNCHANGED <<SCRIPT_MAP, startupMap>>
                     ELSE /\ loadState' = "ready"
                          /\ SCRIPT_MAP' = f.map @@ EmptyMap
                          /\ startupMap' = f.map @@ EmptyMap
    /\ UNCHANGED <<env, appVars, pairsVars, pipeVars>>

InitLoad(e) ==
    /\ env = e
    /\ loadState = "unloaded"
    /\ HEADERS = NoHeaders
    /\ SCRIPT_MAP = EmptyMap
    /\ startupFetch = NoFetch
    /\ startupMap = EmptyMap
    /\ loadRequests = 0

InitApp ==
    /\ pc = "idle"
    /\ cur = NoWidgets
    /\ audio = None
    /\ resp = NoOutcome
    /\ sent = <<>>
    /\ log = <<>>
    /\ msgs = <<>>
    /\ printed = <<>>
    /\ failed = {}
    /\ api = NoApi

InitPairs ==
    /\ pairsCache = [value |-> <<>>, cached |-> FALSE]
    /\ pairsCalls = 0
    /\ pairsRequests = 0
    /\ pairsFirst = <<>>
    /\ pairsLast = <<>>
    /\ pairsFirstOutcome = "none"

NoPipeIn  == [outcome |-> NoOutcome, src |-> NotSet, tgt |-> NotSet]
NoPipeOut == [sent |-> <<>>, value |-> None, exc |-> NoExc, events |-> <<>>, called |-> FALSE]

InitPipe ==
    /\ pipeIn = NoPipeIn
    /\ pipeOut = NoPipeOut

Init ==
    /\ \E e \in [Settings -> SettingValues] : InitLoad(e)
    /\ InitApp
    /\ InitPairs
    /\ InitPipe

Next ==
    \/ ImportBhashiniApi
    \/ PressConvertAndPlay
    \/ PressRecordAndTranscribe
    \/ PressTranslate
    \/ PressRecordAndTranslateToText
    \/ PressTranslateSpeech
    \/ Record
    \/ CallTts
    \/ CallAsr
    \/ CallNmt
    \/ CallAsrNmt
    \/ CallAsrNmtTts
    \/ Play

Spec == Init /\ [][Next]_vars

----------------------------------------------------------------------------
\* language_utils.py: fetch_available_translation_pairs (lines 33-72).

PairLangs == <<"en", "hi", "ta">>

\* Python's order of the language codes (str.__lt__).
CodeRank(code) == CHOOSE i \in 1..Len(PairLangs) : PairLangs[i] = code

\* Python's order of tuples: by the first members, then by the second.
TupleLess(p, q) ==
    \/ CodeRank(p[1]) < CodeRank(q[1])
    \/ p[1] = q[1] /\ CodeRank(p[2]) < CodeRank(q[2])

\* One element of 'pipelineResponse': the two language fields of its config.
PairItems == [sourceLanguage : {Absent, ""} \cup Range(PairLangs),
              targetLanguage : {Absent, ""} \cup Range(PairLangs)]

PairOutcomes ==
    {[kind |-> k, items |-> <<>>] : k \in {"ConnectionError", "HTTPError", "AttributeError"}}
    \cup {[kind |-> "ok", items |-> is] : is \in SeqsUpTo(PairItems, MaxItems)}

\* The set comprehension of lines 62-68.
AvailableLanguages(items) ==
    {<<items[i].sourceLanguage, items[i].targetLanguage>> :
        i \in {j \in 1..Len(items) : /\ Truthy(DictGet(items[j].sourceLanguage))
                                     /\ Truthy(DictGet(items[j].targetLanguage))}}

\* sorted(list(available_languages))
RECURSIVE SortedList(_)
SortedList(S) ==
    IF S = {} THEN <<>>
    ELSE LET m == CHOOSE x \in S : \A y \in S \ {x} : TupleLess(x, y)
         IN  <<m>> \o SortedList(S \ {m})

\* The body of fetch_available_translation_pairs: one request; every exception
\* (of the request, of the status, of the comprehension) is caught and gives [].
fetch_available_translation_pairs(outcome) ==
    IF outcome.kind /= "ok"
    THEN [requests |-> 1, value |-> <<>>]
    ELSE [requests |-> 1, value |-> SortedList(AvailableLanguages(outcome.items))]

\* A cache that never answers.
CacheHitNever(cache) == FALSE
\* @lru_cache(maxsize=1) on a function without arguments: a stored result is
\* returned without running the body.
CacheHit(cache) == cache.cached

CallFetchPairs ==
    /\ pairsCalls < MaxPairCalls
    /\ pairsCalls' = pairsCalls + 1
    /\ IF CacheHit(pairsCache)
       THEN /\ pairsLast' = pairsCache.value
            /\ pairsFirst' = IF pairsCalls = 0 THEN pairsCache.value ELSE pairsFirst
            /\ UNCHANGED <<pairsCache, pairsRequests, pairsFirstOutcome>>
       ELSE \E outcome \in PairOutcomes :
              LET r == fetch_available_translation_pairs(outcome)
              IN  /\ pairsRequests' = pairsRequests + r.requests
                  /\ pairsCache' = [value |-> r.value, cached |-> TRUE]
                  /\ pairsLast' = r.value
                  /\ pairsFirst' = IF pairsCalls = 0 THEN r.value ELSE pairsFirst
                  /\ pairsFirstOutcome' = IF pairsCalls = 0 THEN outcome.kind ELSE pairsFirstOutcome
    /\ UNCHANGED <<loadVars, appVars, pipeVars>>

SetEnv == [k \in Settings |-> "v"]

InitPairsOnly == InitLoad(SetEnv) /\ InitApp /\ InitPairs /\ InitPipe

NextPairs == CallFetchPairs

SpecPairs == InitPairsOnly /\ [][NextPairs]_vars

----------------------------------------------------------------------------
\* bhashini_asr_nmt_tts_pipeline as a function of its arguments and of the
\* answer of the endpoint.

InitPipeOnly ==
    /\ InitLoad(SetEnv)
    /\ InitApp
    /\ InitPairs
    /\ pipeIn \in [outcome : HttpOutcomes(PipelineResponses), src : Langs, tgt : Langs]
    /\ pipeOut = NoPipeOut

CallPipeline ==
    /\ ~pipeOut.called
    /\ LET r == bhashini_asr_nmt_tts_pipeline(SCRIPT_MAP, RecordedAudio, pipeIn.src, pipeIn.tgt,
                                              pipeIn.outcome)
       IN  /\ pipeOut' = [sent |-> r.sent, value |-> r.value, exc |-> r.exc,
                          events |-> r.events, called |-> TRUE]
           /\ SCRIPT_MAP' = r.map
    /\ UNCHANGED <<env, loadState, HEADERS, startupFetch, startupMap, loadRequests,
                   appVars, pairsVars, pipeIn>>

NextPipe == CallPipeline

SpecPipe == InitPipeOnly /\ [][NextPipe]_vars

----------------------------------------------------------------------------
\* Properties.

Shown(kinds) == \E i \in 1..Len(msgs) : msgs[i].kind \in kinds
Count(s, x)  == Cardinality({i \in 1..Len(s) : s[i] = x})

\* C1: when the handling of a button press has ended and one of its steps
\* (recording, request, parsing, playback) failed, an error or a warning is on
\* the page.
C1_EveryFailureIsShown ==
    (pc = "done" /\ failed /= {}) => Shown({"error", "warning", "exception"})

\* C2: an action posts at most one request to the pipeline endpoint, and a
\* request that failed is the last step but the display: nothing is posted
\* after it.
C2_AtMostOneRequest ==
    /\ Len(sent) <= 1
    /\ Count(log, "http") = Len(sent)
    /\ resp.kind \in {"ConnectionError", "HTTPError"} =>
          /\ Len(sent) = 1
          /\ pc = "done"
          /\ \E i \in 1..Len(log) : log[i] = "http" /\ \A j \in (i + 1)..Len(log) : log[j] = "display"

C2_Witness ==
    resp.kind = "HTTPError" /\ pc = "done" /\ Len(sent) = 1 /\ cur.task = SpeechToTextTranslation

\* C3: once the module is loaded, no step changes SCRIPT_MAP or HEADERS.
C3_CallsLeaveConfigurationUnchanged ==
    [][loadState = "ready" => (SCRIPT_MAP' = SCRIPT_MAP /\ HEADERS' = HEADERS)]_vars

StepRank(step) ==
    CASE step = "record" -> 1 [] step = "build" -> 2 [] step = "http" -> 3
      [] step = "parse" -> 4 [] step = "display" -> 5 [] OTHER -> 6

\* The answer holds a non-empty value for the stage.
Holds(json, taskType) ==
    \E i \in 1..Len(json.pipelineResponse) :
        LET t == json.pipelineResponse[i]
        IN  t.taskType = taskType /\ t.output.present /\ t.output.list /= <<>>
            /\ t.output.list[1] \notin {Absent, None, ""}

\* C4: in a speech task the steps of an action come in the order record, build,
\* request, parse, display, play; a request is posted only with a captured
\* recording, and audio is played only after an answer with non-empty audio
\* content was parsed.
C4_SpeechStepsInOrder ==
    cur.task \in SpeechTasks =>
        /\ \A i, j \in 1..Len(log) : i < j => StepRank(log[i]) < StepRank(log[j])
        /\ sent /= <<>> => (audio = RecordedAudio /\ "record" \in Range(log)
                            /\ \A i \in 1..Len(sent) : sent[i].inputData.content = RecordedAudio)
        /\ "play" \in Range(log) =>
              (resp.kind = "ok" /\ "parse" \in Range(log) /\ Holds(resp.json, "tts"))

C4_Witness ==
    cur.task = SpeechToSpeechTranslation /\ pc = "done" /\ "play" \in Range(log)

\* What a process that has handled no action before does with the same widgets,
\* recording and answer: the API function applied to the map of module
\* initialisation.
FreshCall ==
    CASE cur.task = TextToSpeech -> bhashini_tts(startupMap, cur.text, cur.lang, cur.gender, resp)
      [] cur.task = SpeechToText -> bhashini_asr(startupMap, audio, cur.lang, resp)
      [] cur.task = TextToTextTranslation -> bhashini_nmt(startupMap, cur.text, cur.src, cur.tgt, resp)
      [] cur.task = SpeechToTextTranslation -> bhashini_asr_nmt(startupMap, audio, cur.src, cur.tgt, resp)
      [] OTHER -> bhashini_asr_nmt_tts_pipeline(startupMap, audio, cur.src, cur.tgt, resp)

\* C5: the payload an action posts and the result or error it gets are those of
\* a process that has handled no action before.
C5_NothingCarriesOver ==
    api.called => (sent = FreshCall.sent /\ api.exc = FreshCall.exc /\ api.value = FreshCall.value)

C5_Witness ==
    /\ api.called /\ cur.task = SpeechToTextTranslation /\ sent /= <<>>
    /\ cur.src \notin DOMAIN startupMap /\ cur.src \in DOMAIN SCRIPT_MAP

\* C6: fetch_available_translation_pairs posts one request in a process at
\* most; every call returns what the first call returned, a list of pairs in
\* strictly ascending order whose members are non-empty, and the empty list
\* when the first call's request failed.
C6_PairsFetchedOnce ==
    /\ pairsRequests <= 1
    /\ pairsCalls >= 1 =>
          /\ pairsRequests = 1
          /\ pairsLast = pairsFirst
          /\ pairsCache = [value |-> pairsFirst, cached |-> TRUE]
    /\ \A i, j \in 1..Len(pairsFirst) : i < j => TupleLess(pairsFirst[i], pairsFirst[j])
    /\ \A i \in 1..Len(pairsFirst) :
          pairsFirst[i][1] \notin {Absent, None, ""} /\ pairsFirst[i][2] \notin {Absent, None, ""}
    /\ pairsFirstOutcome \notin {"none", "ok"} => pairsFirst = <<>>

C6_Witness ==
    pairsCalls >= 2 /\ Len(pairsFirst) >= 2 /\ pairsLast = pairsFirst

\* C7: an action whose text field is empty, or whose recording returned None,
\* shows a warning, calls no API function and posts no request.
C7_NoRequestWithoutInput ==
    LET noText      == cur.task \in TextTasks /\ cur.text = ""
        noRecording == cur.task \in SpeechTasks /\ pc \in {"calling", "playing", "done"}
                       /\ audio = None /\ ~Shown({"exception"})
    IN  (noText \/ noRecording) =>
            /\ pc = "done"
            /\ ~api.called
            /\ sent = <<>>
            /\ "http" \notin Range(log)
            /\ msgs[Len(msgs)].kind = "warning"

C7_Witness ==
    cur.task = TextToTextTranslation /\ cur.text = "" /\ pc = "done" /\ Shown({"warning"})

\* The message of the stage's failure.
StageFailure(taskType) ==
    CASE taskType = "asr" -> "ASR failed: No transcription returned."
      [] taskType = "translation" -> "Translation failed: No target text returned."
      [] OTHER -> "TTS failed: No audio content returned."

\* The first stage, in the order ASR, translation, TTS, whose value the answer lacks.
EarliestMissing(json) ==
    TaskTypes[CHOOSE i \in 1..Len(TaskTypes) :
                 /\ ~Holds(json, TaskTypes[i])
                 /\ \A j \in 1..(i - 1) : Holds(json, TaskTypes[j])]

C9_ConfigurationLoadedOnce ==
    LET complete == \A k \in Settings : env[k] \notin {None, ""}
    IN  /\ loadRequests <= 1
        /\ ~complete =>
              /\ loadState \in {"unloaded", "ValueError"}
              /\ loadRequests = 0 /\ sent = <<>> /\ pc = "idle"
              /\ HEADERS = NoHeaders /\ SCRIPT_MAP = EmptyMap
        /\ (complete /\ loadState /= "unloaded") =>
              /\ loadState /= "ValueError"
              /\ loadRequests = 1
              /\ HEADERS = [ContentType |-> "application/json", Accept |-> "*/*",
                            user_id |-> "v", api_key |-> "v", Authorization |-> "v"]

C9_Witness ==
    /\ loadState = "ValueError" /\ loadRequests = 0
    /\ env["BHASHINI_PIPELINE_URL"] = "" /\ \A k \in Settings \ {"BHASHINI_PIPELINE_URL"} : env[k] = "v"

\* The script code fetched at startup for the language, 'Latn' without one.
FetchedOrLatn(lang) ==
    IF lang \in DOMAIN startupFetch.map THEN startupFetch.map[lang] ELSE "Latn"

\* C10: every script code of a posted payload is the one fetched at startup for
\* its language, 'Latn' when none was fetched; a startup request that fails
\* with a request error gives an empty mapping, the import completes and every
\* script code posted is 'Latn'.
C10_ScriptCodes ==
    /\ \A i \in 1..Len(sent) : \A j \in 1..Len(sent[i].pipelineTasks) :
          LET c == sent[i].pipelineTasks[j]
          IN  /\ c.sourceScriptCode /= NotSet => c.sourceScriptCode = FetchedOrLatn(c.sourceLanguage)
              /\ c.targetScriptCode /= NotSet => c.targetScriptCode = FetchedOrLatn(c.targetLanguage)
              /\ c.taskType \in {"asr", "translation", "tts"} /\ cur.task \in {SpeechToTextTranslation, SpeechToSpeechTranslation}
                    => c.sourceScriptCode /= NotSet
    /\ startupFetch.kind = "RequestException" =>
          /\ loadState = "ready"
          /\ startupFetch.map = EmptyMap
          /\ \A i \in 1..Len(sent) : \A j \in 1..Len(sent[i].pipelineTasks) :
                sent[i].pipelineTasks[j].sourceScriptCode \in {NotSet, "Latn"}
                /\ sent[i].pipelineTasks[j].targetScriptCode \in {NotSet, "Latn"}

C10_Witness ==
    /\ startupFetch.kind = "RequestException" /\ cur.task = SpeechToSpeechTranslation
    /\ Len(sent) = 1 /\ sent[1].pipelineTasks[3].sourceScriptCode = "Latn"

=============================================================================
